---- MODULE Spec2Model ----
(***************************************************************************)
(* Model of the FreeTezz escrow backend (src/server.js).                   *)
(*                                                                         *)
(* The program is an Express application: a map `jobs` kept in memory and  *)
(* snapshotted to a JSON file, and nine synchronous request handlers.      *)
(* Every handler runs to completion without yielding (no await, no         *)
(* callback), so each handler is one atomic action.                        *)
(*                                                                         *)
(* JavaScript values are modelled as follows.                              *)
(*   - a missing / falsy body field (undefined, null, "")  : Null          *)
(*   - an optional property of a job (submission, dispute, release) :      *)
(*     the empty sequence when the property is absent, a one element       *)
(*     sequence holding the object when it is present                      *)
(*   - a body field that must be a number : the empty sequence when it is  *)
(*     not a number, a one element sequence holding the number otherwise   *)
(*   - ISO timestamps returned by now() : the value of the integer clock   *)
(*   - a response : [code, body], code being the HTTP status               *)
(*   - a message built from a template literal : a sequence of its parts   *)
(***************************************************************************)
EXTENDS Integers, Sequences, FiniteSets, TLC

VARIABLES
    jobs,            \* server.js:57  the in-memory store, id -> job
    disk,            \* server.js:33  content of the JSON file written by saveDB
    clock,           \* the wall clock read by now()
    ESCROW_ADDRESS,  \* server.js:147 process.env.ESCROW_ADDRESS
    lastWrite,       \* history: the request that last wrote the store
    depositPrepared, \* history: ids whose deposit/prepare has succeeded
    everFunded,      \* history: ids whose status has been FUNDED
    accepts          \* accept requests followed line by line (AcceptSpec)

vars == <<jobs, disk, clock, ESCROW_ADDRESS, lastWrite, depositPrepared, everFunded, accepts>>

-----------------------------------------------------------------------------
(* Bounds of the model *)

\* longest escrow.opHashes list explored
MaxOpHashes == 2
\* last instant of the clock
MaxClock == 1

-----------------------------------------------------------------------------
(* Values *)

Null == "null"

\* outcomes of crypto.randomBytes(4).toString('hex'): the runs explored create
\* one job, every handler works on the job that :id names and on no other
JobIds == {"9f3a11c0"}
\* the :id of a request: an id the generator gives, or one it never gave
RequestIds == JobIds \cup {"ffffffff"}

\* wallet addresses (pkh) callers may claim: the address that creates the
\* jobs and another one.  Either may accept a job; whichever is neither the
\* client nor the freelancer of a job is a stranger to it.
Addresses == {"tz1Client", "tz1Freelancer"}

ClientAddresses == {"tz1Client"}

Titles == {"Logo design"}
\* the optional description is left out of the requests explored
Descriptions == {}
AmountsMutez == {0, 10000000}
OpHashes == {"0xabc", "0xdef"}
WorkUrls == {"https://work/1"}
Reasons == {"late"}
EscrowAddresses == {"tz1fakeEscrowAddr"}

\* 1 tez = 1_000_000 mutez
MutezPerTez == 1000000

\* amountTez values of a request, written as a number of half mutez
\* (x tez is 2 * MutezPerTez * x half mutez): 10 tez, 0.0000015 tez, -0.0000005 tez
AmountsTezHalfMutez == {2 * MutezPerTez * 10, 3, -1}

Opt(S) == S \cup {Null}
OptNumber(S) == {<< >>} \cup {<<n>> : n \in S}
NotANumber(x) == x = << >>

Statuses == {"OPEN", "ACCEPTED", "FUNDED", "SUBMITTED", "DISPUTED", "RELEASED"}

-----------------------------------------------------------------------------
(* Helpers of server.js *)

\* toMutez that forgets the scale and returns the amount in tez
toMutez_Unscaled(halfMutez) == halfMutez \div (2 * MutezPerTez)

\* function toMutez(xtz) { return Math.round(Number(xtz || 0) * 1_000_000); }
\* Math.round rounds to the nearest integer, a half towards +Infinity.
toMutez(halfMutez) == (halfMutez + 1) \div 2

\* String(n): the decimal text of a number, kept apart from the number itself
String(n) == <<"string", n>>

\* saveDB(jobs): the file holds the JSON text of the whole map.  A write
\* error is caught and logged; the model follows the writes that succeed.
saveDB(j) == j

Has(id) == id \in DOMAIN jobs

\* jobs[id] = job
Put(j, id, job) == [x \in (DOMAIN j) \cup {id} |-> IF x = id THEN job ELSE j[x]]

Error(code, message) == [code |-> code, body |-> [message |-> message]]
Ok(job) == [code |-> 200, body |-> [ok |-> TRUE, job |-> job]]

-----------------------------------------------------------------------------
(* The request handlers, as functions of the store j, the request and the  *)
(* instant t: the response, the store afterwards, and whether saveDB ran.  *)

Reply(res, j, save) == [res |-> res, jobs |-> j, save |-> save]

\* POST /api/jobs
CreateJob(j, id, title, amountMutez, clientAddress, description, t) ==
    IF title = Null \/ NotANumber(amountMutez) \/ clientAddress = Null
    THEN Reply(Error(400, <<"title, amountMutez, clientAddress are required">>), j, FALSE)
    ELSE LET job == [ id                |-> id,
                      title             |-> title,
                      description       |-> IF description = Null THEN "" ELSE description,
                      amountMutez       |-> amountMutez[1],
                      currency          |-> "XTZ",
                      clientAddress     |-> clientAddress,
                      freelancerAddress |-> Null,
                      status            |-> "OPEN",
                      createdAt         |-> t,
                      updatedAt         |-> t,
                      escrow            |-> [deposited |-> 0, opHashes |-> << >>],
                      submission        |-> << >>,
                      dispute           |-> << >>,
                      release           |-> << >> ]
         IN Reply([code |-> 200, body |-> [id |-> id, job |-> job]], Put(j, id, job), TRUE)

\* GET /api/jobs/:id
GetJob(j, id) ==
    IF id \notin DOMAIN j
    THEN Reply(Error(404, <<"Job not found">>), j, FALSE)
    ELSE Reply([code |-> 200, body |-> j[id]], j, FALSE)

\* accept that assigns the freelancer before it looks at the status
AcceptJob_AssignFirst(j, id, freelancerPkh, t) ==
    IF id \notin DOMAIN j
    THEN Reply(Error(404, <<"Job not found">>), j, FALSE)
    ELSE IF freelancerPkh = Null
    THEN Reply(Error(400, <<"freelancerPkh is required">>), j, FALSE)
    ELSE LET job == [j[id] EXCEPT !.freelancerAddress = freelancerPkh]
         IN IF j[id].status # "OPEN"
            THEN Reply(Error(400, <<"Cannot accept job in status ", j[id].status>>),
                       Put(j, id, job), FALSE)
            ELSE LET done == [job EXCEPT !.status = "ACCEPTED", !.updatedAt = t]
                 IN Reply(Ok(done), Put(j, id, done), TRUE)

\* accept that does not look at the status
AcceptJob_NoStatusCheck(j, id, freelancerPkh, t) ==
    IF id \notin DOMAIN j
    THEN Reply(Error(404, <<"Job not found">>), j, FALSE)
    ELSE IF freelancerPkh = Null
    THEN Reply(Error(400, <<"freelancerPkh is required">>), j, FALSE)
    ELSE LET job == [j[id] EXCEPT !.freelancerAddress = freelancerPkh,
                                  !.status = "ACCEPTED",
                                  !.updatedAt = t]
         IN Reply(Ok(job), Put(j, id, job), TRUE)

\* accept that also takes a job already ACCEPTED
AcceptJob_AcceptedToo(j, id, freelancerPkh, t) ==
    IF id \notin DOMAIN j
    THEN Reply(Error(404, <<"Job not found">>), j, FALSE)
    ELSE IF freelancerPkh = Null
    THEN Reply(Error(400, <<"freelancerPkh is required">>), j, FALSE)
    ELSE IF j[id].status \notin {"OPEN", "ACCEPTED"}
    THEN Reply(Error(400, <<"Cannot accept job in status ", j[id].status>>), j, FALSE)
    ELSE LET job == [j[id] EXCEPT !.freelancerAddress = freelancerPkh,
                                  !.status = "ACCEPTED",
                                  !.updatedAt = t]
         IN Reply(Ok(job), Put(j, id, job), TRUE)

\* POST /api/jobs/:id/accept
AcceptJob(j, id, freelancerPkh, t) ==
    IF id \notin DOMAIN j
    THEN Reply(Error(404, <<"Job not found">>), j, FALSE)
    ELSE IF freelancerPkh = Null
    THEN Reply(Error(400, <<"freelancerPkh is required">>), j, FALSE)
    ELSE IF j[id].status # "OPEN"
    THEN Reply(Error(400, <<"Cannot accept job in status ", j[id].status>>), j, FALSE)
    ELSE LET job == [j[id] EXCEPT !.freelancerAddress = freelancerPkh,
                                  !.status = "ACCEPTED",
                                  !.updatedAt = t]
         IN Reply(Ok(job), Put(j, id, job), TRUE)

\* submit that is allowed from ACCEPTED alone
SubmitWork_AcceptedOnly(j, id, freelancerPkh, workUrl, t) ==
    IF id \notin DOMAIN j
    THEN Reply(Error(404, <<"Job not found">>), j, FALSE)
    ELSE IF freelancerPkh = Null \/ workUrl = Null
    THEN Reply(Error(400, <<"freelancerPkh and workUrl are required">>), j, FALSE)
    ELSE IF j[id].freelancerAddress # freelancerPkh
    THEN Reply(Error(403, <<"Only assigned freelancer can submit">>), j, FALSE)
    ELSE IF j[id].status # "ACCEPTED"
    THEN Reply(Error(400, <<"Cannot submit in status ", j[id].status>>), j, FALSE)
    ELSE LET job == [j[id] EXCEPT !.submission = <<[workUrl |-> workUrl, at |-> t]>>,
                                  !.status = "SUBMITTED",
                                  !.updatedAt = t]
         IN Reply(Ok(job), Put(j, id, job), TRUE)

\* submit that looks at the status before it looks at the identity
SubmitWork_StatusFirst(j, id, freelancerPkh, workUrl, t) ==
    IF id \notin DOMAIN j
    THEN Reply(Error(404, <<"Job not found">>), j, FALSE)
    ELSE IF freelancerPkh = Null \/ workUrl = Null
    THEN Reply(Error(400, <<"freelancerPkh and workUrl are required">>), j, FALSE)
    ELSE IF j[id].status \notin {"ACCEPTED", "FUNDED"}
    THEN Reply(Error(400, <<"Cannot submit in status ", j[id].status>>), j, FALSE)
    ELSE IF j[id].freelancerAddress # freelancerPkh
    THEN Reply(Error(403, <<"Only assigned freelancer can submit">>), j, FALSE)
    ELSE LET job == [j[id] EXCEPT !.submission = <<[workUrl |-> workUrl, at |-> t]>>,
                                  !.status = "SUBMITTED",
                                  !.updatedAt = t]
         IN Reply(Ok(job), Put(j, id, job), TRUE)

\* POST /api/jobs/:id/submit
SubmitWork(j, id, freelancerPkh, workUrl, t) ==
    IF id \notin DOMAIN j
    THEN Reply(Error(404, <<"Job not found">>), j, FALSE)
    ELSE IF freelancerPkh = Null \/ workUrl = Null
    THEN Reply(Error(400, <<"freelancerPkh and workUrl are required">>), j, FALSE)
    ELSE IF j[id].freelancerAddress # freelancerPkh
    THEN Reply(Error(403, <<"Only assigned freelancer can submit">>), j, FALSE)
    ELSE IF j[id].status \notin {"ACCEPTED", "FUNDED"}
    THEN Reply(Error(400, <<"Cannot submit in status ", j[id].status>>), j, FALSE)
    ELSE LET job == [j[id] EXCEPT !.submission = <<[workUrl |-> workUrl, at |-> t]>>,
                                  !.status = "SUBMITTED",
                                  !.updatedAt = t]
         IN Reply(Ok(job), Put(j, id, job), TRUE)

\* dispute that is refused on a RELEASED job
DisputeJob_NotAfterRelease(j, id, pkh, reason, t) ==
    IF id \notin DOMAIN j
    THEN Reply(Error(404, <<"Job not found">>), j, FALSE)
    ELSE IF pkh = Null \/ reason = Null
    THEN Reply(Error(400, <<"pkh and reason are required">>), j, FALSE)
    ELSE IF j[id].status = "RELEASED"
    THEN Reply(Error(400, <<"Cannot dispute in status ", j[id].status>>), j, FALSE)
    ELSE LET job == [j[id] EXCEPT !.dispute = <<[by |-> pkh, reason |-> reason, at |-> t]>>,
                                  !.status = "DISPUTED",
                                  !.updatedAt = t]
         IN Reply(Ok(job), Put(j, id, job), TRUE)

\* POST /api/jobs/:id/dispute
DisputeJob(j, id, pkh, reason, t) ==
    IF id \notin DOMAIN j
    THEN Reply(Error(404, <<"Job not found">>), j, FALSE)
    ELSE IF pkh = Null \/ reason = Null
    THEN Reply(Error(400, <<"pkh and reason are required">>), j, FALSE)
    ELSE LET job == [j[id] EXCEPT !.dispute = <<[by |-> pkh, reason |-> reason, at |-> t]>>,
                                  !.status = "DISPUTED",
                                  !.updatedAt = t]
         IN Reply(Ok(job), Put(j, id, job), TRUE)

\* deposit/prepare that books the prepared amount on the job
DepositPrepare_BooksAmount(j, id, fromPkh, amountTez, escrowAddress) ==
    IF id \notin DOMAIN j
    THEN Reply(Error(404, <<"Job not found">>), j, FALSE)
    ELSE IF fromPkh = Null \/ NotANumber(amountTez)
    THEN Reply(Error(400, <<"fromPkh and amountTez are required">>), j, FALSE)
    ELSE IF j[id].clientAddress # fromPkh
    THEN Reply(Error(403, <<"Only client can deposit">>), j, FALSE)
    ELSE IF escrowAddress = Null
    THEN Reply(Error(400, <<"ESCROW_ADDRESS not configured on server (.env)">>), j, FALSE)
    ELSE Reply([code |-> 200,
                body |-> [operationDetails |->
                            <<[kind        |-> "transaction",
                               destination |-> escrowAddress,
                               amount      |-> String(toMutez(amountTez[1]))]>>]],
               Put(j, id, [j[id] EXCEPT !.escrow.deposited = toMutez(amountTez[1])]), TRUE)

\* POST /api/jobs/:id/deposit/prepare  (amountTez in half mutez)
DepositPrepare(j, id, fromPkh, amountTez, escrowAddress) ==
    IF id \notin DOMAIN j
    THEN Reply(Error(404, <<"Job not found">>), j, FALSE)
    ELSE IF fromPkh = Null \/ NotANumber(amountTez)
    THEN Reply(Error(400, <<"fromPkh and amountTez are required">>), j, FALSE)
    ELSE IF j[id].clientAddress # fromPkh
    THEN Reply(Error(403, <<"Only client can deposit">>), j, FALSE)
    ELSE IF escrowAddress = Null
    THEN Reply(Error(400, <<"ESCROW_ADDRESS not configured on server (.env)">>), j, FALSE)
    ELSE Reply([code |-> 200,
                body |-> [operationDetails |->
                            <<[kind        |-> "transaction",
                               destination |-> escrowAddress,
                               amount      |-> String(toMutez(amountTez[1]))]>>]],
               j, FALSE)

\* deposit/confirm that puts the new reference in front of the earlier ones
DepositConfirm_Prepend(j, id, fromPkh, opHash, t) ==
    IF id \notin DOMAIN j
    THEN Reply(Error(404, <<"Job not found">>), j, FALSE)
    ELSE IF fromPkh = Null \/ opHash = Null
    THEN Reply(Error(400, <<"fromPkh and opHash are required">>), j, FALSE)
    ELSE IF j[id].clientAddress # fromPkh
    THEN Reply(Error(403, <<"Only client can confirm">>), j, FALSE)
    ELSE LET job == [j[id] EXCEPT !.escrow.deposited = j[id].amountMutez,
                                  !.escrow.opHashes = <<opHash>> \o @,
                                  !.status = "FUNDED",
                                  !.updatedAt = t]
         IN Reply(Ok(job), Put(j, id, job), TRUE)

\* deposit/confirm that takes the confirmation of any caller
DepositConfirm_AnyCaller(j, id, fromPkh, opHash, t) ==
    IF id \notin DOMAIN j
    THEN Reply(Error(404, <<"Job not found">>), j, FALSE)
    ELSE IF fromPkh = Null \/ opHash = Null
    THEN Reply(Error(400, <<"fromPkh and opHash are required">>), j, FALSE)
    ELSE LET job == [j[id] EXCEPT !.escrow.deposited = j[id].amountMutez,
                                  !.escrow.opHashes = Append(@, opHash),
                                  !.status = "FUNDED",
                                  !.updatedAt = t]
         IN Reply(Ok(job), Put(j, id, job), TRUE)

\* deposit/confirm that records the deposit and leaves the status alone
DepositConfirm_StatusKept(j, id, fromPkh, opHash, t) ==
    IF id \notin DOMAIN j
    THEN Reply(Error(404, <<"Job not found">>), j, FALSE)
    ELSE IF fromPkh = Null \/ opHash = Null
    THEN Reply(Error(400, <<"fromPkh and opHash are required">>), j, FALSE)
    ELSE IF j[id].clientAddress # fromPkh
    THEN Reply(Error(403, <<"Only client can confirm">>), j, FALSE)
    ELSE LET job == [j[id] EXCEPT !.escrow.deposited = j[id].amountMutez,
                                  !.escrow.opHashes = Append(@, opHash),
                                  !.updatedAt = t]
         IN Reply(Ok(job), Put(j, id, job), TRUE)

\* POST /api/jobs/:id/deposit/confirm
DepositConfirm(j, id, fromPkh, opHash, t) ==
    IF id \notin DOMAIN j
    THEN Reply(Error(404, <<"Job not found">>), j, FALSE)
    ELSE IF fromPkh = Null \/ opHash = Null
    THEN Reply(Error(400, <<"fromPkh and opHash are required">>), j, FALSE)
    ELSE IF j[id].clientAddress # fromPkh
    THEN Reply(Error(403, <<"Only client can confirm">>), j, FALSE)
    ELSE LET job == [j[id] EXCEPT !.escrow.deposited = j[id].amountMutez,
                                  !.escrow.opHashes = Append(@, opHash),
                                  !.status = "FUNDED",
                                  !.updatedAt = t]
         IN Reply(Ok(job), Put(j, id, job), TRUE)

\* release/prepare that does not look for a freelancer
ReleasePrepare_NoFreelancerCheck(j, id, clientPkh) ==
    IF id \notin DOMAIN j
    THEN Reply(Error(404, <<"Job not found">>), j, FALSE)
    ELSE IF clientPkh = Null
    THEN Reply(Error(400, <<"clientPkh is required">>), j, FALSE)
    ELSE IF j[id].clientAddress # clientPkh
    THEN Reply(Error(403, <<"Only client can release">>), j, FALSE)
    ELSE IF j[id].status # "SUBMITTED" /\ j[id].status # "FUNDED"
    THEN Reply(Error(400, <<"Cannot release in status ", j[id].status>>), j, FALSE)
    ELSE Reply([code |-> 200,
                body |-> [operationDetails |->
                            <<[kind        |-> "transaction",
                               destination |-> j[id].freelancerAddress,
                               amount      |-> String(j[id].amountMutez)]>>]],
               j, FALSE)

\* POST /api/jobs/:id/release/prepare
ReleasePrepare(j, id, clientPkh) ==
    IF id \notin DOMAIN j
    THEN Reply(Error(404, <<"Job not found">>), j, FALSE)
    ELSE IF clientPkh = Null
    THEN Reply(Error(400, <<"clientPkh is required">>), j, FALSE)
    ELSE IF j[id].clientAddress # clientPkh
    THEN Reply(Error(403, <<"Only client can release">>), j, FALSE)
    ELSE IF j[id].freelancerAddress = Null
    THEN Reply(Error(400, <<"No freelancer assigned">>), j, FALSE)
    ELSE IF j[id].status # "SUBMITTED" /\ j[id].status # "FUNDED"
    THEN Reply(Error(400, <<"Cannot release in status ", j[id].status>>), j, FALSE)
    ELSE Reply([code |-> 200,
                body |-> [operationDetails |->
                            <<[kind        |-> "transaction",
                               destination |-> j[id].freelancerAddress,
                               amount      |-> String(j[id].amountMutez)]>>]],
               j, FALSE)

\* POST /api/jobs/:id/release/confirm
ReleaseConfirm(j, id, clientPkh, opHash, t) ==
    IF id \notin DOMAIN j
    THEN Reply(Error(404, <<"Job not found">>), j, FALSE)
    ELSE IF clientPkh = Null \/ opHash = Null
    THEN Reply(Error(400, <<"clientPkh and opHash are required">>), j, FALSE)
    ELSE IF j[id].clientAddress # clientPkh
    THEN Reply(Error(403, <<"Only client can confirm">>), j, FALSE)
    ELSE LET job == [j[id] EXCEPT !.status = "RELEASED",
                                  !.updatedAt = t,
                                  !.release = <<[opHash |-> opHash, at |-> t]>>]
         IN Reply(Ok(job), Put(j, id, job), TRUE)

-----------------------------------------------------------------------------
(* The state machine: one action per request handled *)

\* ids whose status is FUNDED in store j
Funded(j) == {x \in DOMAIN j : j[x].status = "FUNDED"}

\* The effect on the state of handling `request`, r being the handler's Reply.
\* The response r.res goes to the caller and is not kept by the server.
Handle(request, r) ==
    /\ jobs' = r.jobs
    /\ lastWrite' = IF r.save THEN request ELSE lastWrite
    /\ disk' = IF r.save THEN saveDB(r.jobs) ELSE disk
    /\ everFunded' = everFunded \cup Funded(r.jobs)
    /\ depositPrepared' = IF request.op = "deposit/prepare" /\ r.res.code = 200
                          THEN depositPrepared \cup {request.id}
                          ELSE depositPrepared
    /\ UNCHANGED <<clock, ESCROW_ADDRESS, accepts>>

Init ==
    /\ jobs = [x \in {} |-> Null]
    /\ disk = [x \in {} |-> Null]
    /\ clock = 0
    /\ ESCROW_ADDRESS \in Opt(EscrowAddresses)
    /\ lastWrite = [op |-> "none"]
    /\ depositPrepared = {}
    /\ everFunded = {}
    /\ accepts = [q \in {} |-> Null]

\* time passes between two requests
Tick ==
    /\ clock < MaxClock
    /\ clock' = clock + 1
    /\ UNCHANGED <<jobs, disk, ESCROW_ADDRESS, lastWrite, depositPrepared, everFunded, accepts>>

\* the id generator is collision resistant: a new job gets an id not in use
Create ==
    \E id \in JobIds \ DOMAIN jobs, title \in Opt(Titles), amountMutez \in OptNumber(AmountsMutez),
       clientAddress \in Opt(ClientAddresses), description \in Opt(Descriptions) :
        Handle([op |-> "create", id |-> id, title |-> title, amountMutez |-> amountMutez,
                clientAddress |-> clientAddress, description |-> description],
               CreateJob(jobs, id, title, amountMutez, clientAddress, description, clock))

Get ==
    \E id \in JobIds :
        Handle([op |-> "get", id |-> id], GetJob(jobs, id))

Accept ==
    \E id \in JobIds, freelancerPkh \in Opt(Addresses) :
        Handle([op |-> "accept", id |-> id, freelancerPkh |-> freelancerPkh],
               AcceptJob(jobs, id, freelancerPkh, clock))

Submit ==
    \E id \in JobIds, freelancerPkh \in Opt(Addresses), workUrl \in Opt(WorkUrls) :
        Handle([op |-> "submit", id |-> id, freelancerPkh |-> freelancerPkh, workUrl |-> workUrl],
               SubmitWork(jobs, id, freelancerPkh, workUrl, clock))

Dispute ==
    \E id \in JobIds, pkh \in Opt(Addresses), reason \in Opt(Reasons) :
        Handle([op |-> "dispute", id |-> id, pkh |-> pkh, reason |-> reason],
               DisputeJob(jobs, id, pkh, reason, clock))

DepositPrep ==
    \E id \in JobIds, fromPkh \in Opt(Addresses), amountTez \in OptNumber(AmountsTezHalfMutez) :
        Handle([op |-> "deposit/prepare", id |-> id, fromPkh |-> fromPkh, amountTez |-> amountTez],
               DepositPrepare(jobs, id, fromPkh, amountTez, ESCROW_ADDRESS))

\* explored while the opHashes list stays within MaxOpHashes
DepositConf ==
    \E id \in JobIds, fromPkh \in Opt(Addresses), opHash \in Opt(OpHashes) :
        /\ Has(id) => Len(jobs[id].escrow.opHashes) < MaxOpHashes
        /\ Handle([op |-> "deposit/confirm", id |-> id, fromPkh |-> fromPkh, opHash |-> opHash],
                  DepositConfirm(jobs, id, fromPkh, opHash, clock))

ReleasePrep ==
    \E id \in JobIds, clientPkh \in Opt(Addresses) :
        Handle([op |-> "release/prepare", id |-> id, clientPkh |-> clientPkh],
               ReleasePrepare(jobs, id, clientPkh))

ReleaseConf ==
    \E id \in JobIds, clientPkh \in Opt(Addresses), opHash \in Opt(OpHashes) :
        Handle([op |-> "release/confirm", id |-> id, clientPkh |-> clientPkh, opHash |-> opHash],
               ReleaseConfirm(jobs, id, clientPkh, opHash, clock))

Next ==
    \/ Tick
    \/ Create
    \/ Get
    \/ Accept
    \/ Submit
    \/ Dispute
    \/ DepositPrep
    \/ DepositConf
    \/ ReleasePrep
    \/ ReleaseConf

Spec == Init /\ [][Next]_vars

-----------------------------------------------------------------------------
(* Two accept requests for one OPEN job, followed line by line.            *)
(*                                                                         *)
(* Both requests have arrived and wait in the event loop.  The handler of  *)
(* server.js:95-106 is a synchronous function: it has no await and no      *)
(* callback, so once the event loop calls it, it runs to its response      *)
(* before the event loop calls the handler of another request.             *)

AcceptRequests == {"first", "second"}

NoResponse == [code |-> 0, body |-> [message |-> <<"pending">>]]

\* the event loop calls a handler only when no handler is running
Idle_Interleaved == TRUE

Idle == \A q \in DOMAIN accepts : accepts[q].pc \in {"pending", "done"}

\* request q moves to line pc, or ends with response res
Goto(q, pc) == accepts' = [accepts EXCEPT ![q].pc = pc]
Respond(q, res) == accepts' = [accepts EXCEPT ![q].pc = "done", ![q].res = res]

InitAccept ==
    /\ \E id \in JobIds, amountMutez \in AmountsMutez, clientAddress \in ClientAddresses :
          LET request == [op |-> "create", id |-> id, title |-> "Logo design",
                          amountMutez |-> <<amountMutez>>, clientAddress |-> clientAddress,
                          description |-> Null]
              r == CreateJob([x \in {} |-> Null], id, "Logo design", <<amountMutez>>,
                             clientAddress, Null, 0)
          IN /\ jobs = r.jobs
             /\ disk = saveDB(r.jobs)
             /\ lastWrite = request
             /\ \E first \in Opt(Addresses), second \in Opt(Addresses) :
                   accepts = [q \in AcceptRequests |->
                                [id  |-> id,
                                 freelancerPkh |-> IF q = "first" THEN first ELSE second,
                                 pc  |-> "pending",
                                 res |-> NoResponse]]
    /\ clock = 0
    /\ ESCROW_ADDRESS \in Opt(EscrowAddresses)
    /\ depositPrepared = {}
    /\ everFunded = {}

\* server.js:96-97  const job = jobs[req.params.id]; if (!job) return 404
AcceptLookup(q) ==
    /\ accepts[q].pc = "pending"
    /\ Idle
    /\ IF accepts[q].id \notin DOMAIN jobs
       THEN Respond(q, Error(404, <<"Job not found">>))
       ELSE Goto(q, "98")
    /\ UNCHANGED <<jobs, disk, clock, ESCROW_ADDRESS, lastWrite, depositPrepared, everFunded>>

\* server.js:98-99  if (!freelancerPkh) return 400
AcceptValidate(q) ==
    /\ accepts[q].pc = "98"
    /\ IF accepts[q].freelancerPkh = Null
       THEN Respond(q, Error(400, <<"freelancerPkh is required">>))
       ELSE Goto(q, "100")
    /\ UNCHANGED <<jobs, disk, clock, ESCROW_ADDRESS, lastWrite, depositPrepared, everFunded>>

\* server.js:100  if (job.status !== 'OPEN') return 400
AcceptCheckStatus(q) ==
    /\ accepts[q].pc = "100"
    /\ IF jobs[accepts[q].id].status # "OPEN"
       THEN Respond(q, Error(400, <<"Cannot accept job in status ", jobs[accepts[q].id].status>>))
       ELSE Goto(q, "101")
    /\ UNCHANGED <<jobs, disk, clock, ESCROW_ADDRESS, lastWrite, depositPrepared, everFunded>>

\* server.js:101-103  job.freelancerAddress = freelancerPkh; job.status = 'ACCEPTED';
\*                    job.updatedAt = now()  (job is the object held by jobs)
AcceptAssign(q) ==
    /\ accepts[q].pc = "101"
    /\ jobs' = [jobs EXCEPT ![accepts[q].id].freelancerAddress = accepts[q].freelancerPkh]
    /\ Goto(q, "102")
    /\ UNCHANGED <<disk, clock, ESCROW_ADDRESS, lastWrite, depositPrepared, everFunded>>

AcceptSetStatus(q) ==
    /\ accepts[q].pc = "102"
    /\ jobs' = [jobs EXCEPT ![accepts[q].id].status = "ACCEPTED"]
    /\ Goto(q, "103")
    /\ UNCHANGED <<disk, clock, ESCROW_ADDRESS, lastWrite, depositPrepared, everFunded>>

AcceptTouch(q) ==
    /\ accepts[q].pc = "103"
    /\ jobs' = [jobs EXCEPT ![accepts[q].id].updatedAt = clock]
    /\ Goto(q, "104")
    /\ UNCHANGED <<disk, clock, ESCROW_ADDRESS, lastWrite, depositPrepared, everFunded>>

\* server.js:104  saveDB(jobs)
AcceptSave(q) ==
    /\ accepts[q].pc = "104"
    /\ disk' = saveDB(jobs)
    /\ lastWrite' = [op |-> "accept", id |-> accepts[q].id,
                     freelancerPkh |-> accepts[q].freelancerPkh]
    /\ Goto(q, "105")
    /\ UNCHANGED <<jobs, clock, ESCROW_ADDRESS, depositPrepared, everFunded>>

\* server.js:105  res.json({ ok: true, job })
AcceptRespond(q) ==
    /\ accepts[q].pc = "105"
    /\ Respond(q, Ok(jobs[accepts[q].id]))
    /\ UNCHANGED <<jobs, disk, clock, ESCROW_ADDRESS, lastWrite, depositPrepared, everFunded>>

\* the clock advances while the requests are served
AcceptTick ==
    /\ clock < MaxClock
    /\ clock' = clock + 1
    /\ UNCHANGED <<jobs, disk, ESCROW_ADDRESS, lastWrite, depositPrepared, everFunded, accepts>>

NextAccept ==
    \/ AcceptTick
    \/ \E q \in AcceptRequests : AcceptLookup(q)
    \/ \E q \in AcceptRequests : AcceptValidate(q)
    \/ \E q \in AcceptRequests : AcceptCheckStatus(q)
    \/ \E q \in AcceptRequests : AcceptAssign(q)
    \/ \E q \in AcceptRequests : AcceptSetStatus(q)
    \/ \E q \in AcceptRequests : AcceptTouch(q)
    \/ \E q \in AcceptRequests : AcceptSave(q)
    \/ \E q \in AcceptRequests : AcceptRespond(q)

AcceptSpec == InitAccept /\ [][NextAccept]_vars

-----------------------------------------------------------------------------
(* Properties *)

Job(id) == jobs[id]

\* the transition table of the lifecycle: (from, action, to)
TableEdge(from, op, to) ==
    \/ op = "accept"          /\ from = "OPEN"                    /\ to = "ACCEPTED"
    \/ op = "deposit/confirm" /\ from = "ACCEPTED"                /\ to = "FUNDED"
    \/ op = "submit"          /\ from \in {"ACCEPTED", "FUNDED"}  /\ to = "SUBMITTED"
    \/ op = "release/confirm" /\ from \in {"SUBMITTED", "FUNDED"} /\ to = "RELEASED"
    \/ op = "dispute"                                             /\ to = "DISPUTED"

\* C1: every change of a job's status is an edge of the transition table,
\* taken by the action of that edge.
C1_StatusFollowsTable ==
    [][\A id \in DOMAIN jobs :
          (id \in DOMAIN jobs' /\ jobs'[id].status # jobs[id].status)
              => TableEdge(jobs[id].status, lastWrite'.op, jobs'[id].status)]_vars

\* C2: a deposit/confirm that succeeded on a job was preceded by a
\* deposit/prepare that succeeded on that job.
C2_ConfirmOnlyAfterPrepare ==
    lastWrite.op = "deposit/confirm" => lastWrite.id \in depositPrepared

\* C3: a job whose status is ACCEPTED, FUNDED, SUBMITTED or RELEASED has a
\* freelancerAddress that is not null.
C3_FreelancerAssigned ==
    \A id \in DOMAIN jobs :
        Job(id).status \in {"ACCEPTED", "FUNDED", "SUBMITTED", "RELEASED"}
            => Job(id).freelancerAddress # Null

\* C4: the release record of a job is present if and only if its status is
\* RELEASED.
C4_ReleaseIffReleased ==
    \A id \in DOMAIN jobs :
        (Job(id).release # << >>) <=> (Job(id).status = "RELEASED")

\* C5: escrow.deposited of a job is non-zero only if the status of the job
\* has been FUNDED, now or earlier.
C5_DepositedOnlyIfFunded ==
    \A id \in DOMAIN jobs :
        Job(id).escrow.deposited # 0 => id \in everFunded

\* a job that holds a deposit and has left FUNDED
C5_Witness ==
    \E id \in DOMAIN jobs :
        /\ Job(id).escrow.deposited # 0
        /\ Job(id).status = "SUBMITTED"
        /\ id \in everFunded

\* a handler's Reply r leaves the store and the file as they are
NoEffect(r) == r.jobs = jobs /\ ~r.save

Failed(r) == r.res.code # 200

\* C6: a request that fails, whatever the handler and the reason (a missing
\* field, an unknown id, an identity mismatch, an illegal status, no escrow
\* address configured), leaves the store and the file as they were.
C6_FailureLeavesStore ==
    /\ \A id \in RequestIds \ DOMAIN jobs, title \in Opt(Titles),
          amountMutez \in OptNumber(AmountsMutez), clientAddress \in Opt(ClientAddresses) :
          LET r == CreateJob(jobs, id, title, amountMutez, clientAddress, Null, clock)
          IN Failed(r) => NoEffect(r)
    /\ \A id \in RequestIds :
          /\ LET r == GetJob(jobs, id) IN Failed(r) => NoEffect(r)
          /\ \A pkh \in Opt(Addresses) :
                /\ LET r == AcceptJob(jobs, id, pkh, clock) IN Failed(r) => NoEffect(r)
                /\ LET r == ReleasePrepare(jobs, id, pkh) IN Failed(r) => NoEffect(r)
                /\ \A workUrl \in Opt(WorkUrls) :
                      LET r == SubmitWork(jobs, id, pkh, workUrl, clock)
                      IN Failed(r) => NoEffect(r)
                /\ \A reason \in Opt(Reasons) :
                      LET r == DisputeJob(jobs, id, pkh, reason, clock)
                      IN Failed(r) => NoEffect(r)
                /\ \A amountTez \in OptNumber(AmountsTezHalfMutez) :
                      LET r == DepositPrepare(jobs, id, pkh, amountTez, ESCROW_ADDRESS)
                      IN Failed(r) => NoEffect(r)
                /\ \A opHash \in Opt(OpHashes) :
                      /\ LET r == DepositConfirm(jobs, id, pkh, opHash, clock)
                         IN Failed(r) => NoEffect(r)
                      /\ LET r == ReleaseConfirm(jobs, id, pkh, opHash, clock)
                         IN Failed(r) => NoEffect(r)

\* C6, on the steps taken: a step that is not the write of a handler (no
\* saveDB, the file unchanged) leaves every job as it was and adds none.
C6_NoWriteNoChange ==
    [][disk' = disk => jobs' = jobs]_vars

\* an accepted job on which requests fail for each reason: an unknown id, a
\* missing field, a foreign identity, an illegal status, no escrow address
C6_Witness ==
    \E id \in DOMAIN jobs :
        /\ Job(id).status = "ACCEPTED"
        /\ lastWrite.op = "accept"
        /\ ESCROW_ADDRESS = Null
        /\ GetJob(jobs, "ffffffff").res.code = 404
        /\ AcceptJob(jobs, id, Null, clock).res.code = 400
        /\ AcceptJob(jobs, id, "tz1Freelancer", clock).res.code = 400
        /\ DepositConfirm(jobs, id, "tz1Freelancer", "0xabc", clock).res.code = 403
        /\ DepositPrepare(jobs, id, Job(id).clientAddress, <<3>>, ESCROW_ADDRESS).res.code = 400

\* C7: accept succeeds only on an OPEN job.  On a job in any other status an
\* accept fails and leaves the job as it is; when the request names a
\* freelancer the failure is the invalid transition error, which names the
\* current status.
C7_AcceptOnlyWhenOpen ==
    \A id \in DOMAIN jobs, pkh \in Opt(Addresses) :
        LET r == AcceptJob(jobs, id, pkh, clock)
        IN /\ r.res.code = 200 => Job(id).status = "OPEN"
           /\ Job(id).status # "OPEN" =>
                 /\ Failed(r)
                 /\ r.jobs[id].status = Job(id).status
                 /\ r.jobs[id].freelancerAddress = Job(id).freelancerAddress
                 /\ NoEffect(r)
                 /\ pkh # Null =>
                       r.res = Error(400, <<"Cannot accept job in status ", Job(id).status>>)

\* right after a successful accept, a second accept is refused
C7_Witness ==
    \E id \in DOMAIN jobs :
        /\ lastWrite.op = "accept"
        /\ Job(id).status = "ACCEPTED"
        /\ Job(id).freelancerAddress = "tz1Freelancer"
        /\ AcceptJob(jobs, id, "tz1Client", clock).res
              = Error(400, <<"Cannot accept job in status ", "ACCEPTED">>)

\* C8: a deposit/confirm whose fromPkh differs from the job's clientAddress
\* fails and leaves escrow (deposited, opHashes) and status as they are, in
\* every status; when the request carries an opHash the failure is 403.
C8_ForeignDepositConfirmForbidden ==
    \A id \in DOMAIN jobs, pkh \in Opt(Addresses), opHash \in Opt(OpHashes) :
        pkh # Job(id).clientAddress =>
            LET r == DepositConfirm(jobs, id, pkh, opHash, clock)
            IN /\ Failed(r)
               /\ r.jobs[id].escrow = Job(id).escrow
               /\ r.jobs[id].status = Job(id).status
               /\ NoEffect(r)
               /\ (pkh # Null /\ opHash # Null) =>
                     r.res = Error(403, <<"Only client can confirm">>)

\* a job past ACCEPTED on which a foreign deposit/confirm is refused
C8_Witness ==
    \E id \in DOMAIN jobs :
        /\ Job(id).status = "SUBMITTED"
        /\ Job(id).escrow.opHashes # << >>
        /\ "tz1Freelancer" # Job(id).clientAddress
        /\ DepositConfirm(jobs, id, "tz1Freelancer", "0xdef", clock).res.code = 403

\* C9: a submit whose freelancerPkh is not the job's freelancerAddress (any
\* identity while nobody has accepted) fails with 403 in every status, given
\* a workUrl, and leaves status and submission as they are.
C9_ForeignSubmitForbidden ==
    \A id \in DOMAIN jobs, pkh \in Addresses, workUrl \in Opt(WorkUrls) :
        pkh # Job(id).freelancerAddress =>
            LET r == SubmitWork(jobs, id, pkh, workUrl, clock)
            IN /\ Failed(r)
               /\ r.jobs[id].status = Job(id).status
               /\ r.jobs[id].submission = Job(id).submission
               /\ NoEffect(r)
               /\ workUrl # Null =>
                     r.res = Error(403, <<"Only assigned freelancer can submit">>)

\* a job in a status that allows no submit, accepted by somebody else than
\* the caller: the refusal is 403, not the status error
C9_Witness ==
    \E id \in DOMAIN jobs :
        /\ Job(id).status = "RELEASED"
        /\ Job(id).freelancerAddress = "tz1Freelancer"
        /\ SubmitWork(jobs, id, "tz1Client", "https://work/1", clock).res
              = Error(403, <<"Only assigned freelancer can submit">>)

\* C10: a dispute that succeeded was raised by the job's client or by its
\* freelancer.
C10_DisputeByPartyOnly ==
    \A id \in DOMAIN jobs :
        (lastWrite.op = "dispute" /\ lastWrite.id = id)
            => lastWrite.pkh \in {Job(id).clientAddress, Job(id).freelancerAddress}

\* C11: release/prepare returns an instruction exactly when the caller is the
\* job's client, a freelancer is assigned and the status is SUBMITTED or
\* FUNDED; the instruction then pays the job's amount to the job's
\* freelancer.  While no freelancer is assigned it fails and returns none.
C11_ReleasePrepareGuarded ==
    \A id \in DOMAIN jobs, pkh \in Opt(Addresses) :
        LET r == ReleasePrepare(jobs, id, pkh)
            allowed == /\ pkh = Job(id).clientAddress
                       /\ Job(id).freelancerAddress # Null
                       /\ Job(id).status \in {"SUBMITTED", "FUNDED"}
        IN /\ (r.res.code = 200) <=> allowed
           /\ allowed => r.res.body = [operationDetails |->
                             <<[kind        |-> "transaction",
                                destination |-> Job(id).freelancerAddress,
                                amount      |-> String(Job(id).amountMutez)]>>]
           /\ Job(id).freelancerAddress = Null =>
                 /\ Failed(r)
                 /\ "operationDetails" \notin DOMAIN r.res.body

\* a FUNDED job nobody has accepted: the client's release/prepare is refused
C11_Witness ==
    \E id \in DOMAIN jobs :
        /\ Job(id).status = "FUNDED"
        /\ Job(id).freelancerAddress = Null
        /\ ReleasePrepare(jobs, id, Job(id).clientAddress).res
              = Error(400, <<"No freelancer assigned">>)

\* whole numbers of tez asked for in a deposit/prepare
WholeTez == {0, 1, 10}

\* the amountTez field of a request for a whole tez
TezField(a) == <<2 * MutezPerTez * a>>

\* C12: in every status, a deposit/prepare by the client for a whole tez
\* returns one instruction to the configured escrow address for a * 1,000,000
\* mutez; with no escrow address configured it fails with the configuration
\* error and returns no instruction; a foreign identity gets 403 whether or
\* not an escrow address is configured.
C12_DepositPrepareInstruction ==
    \A id \in DOMAIN jobs, a \in WholeTez :
        /\ LET r == DepositPrepare(jobs, id, Job(id).clientAddress, TezField(a), ESCROW_ADDRESS)
           IN IF ESCROW_ADDRESS # Null
              THEN r.res = [code |-> 200,
                            body |-> [operationDetails |->
                                        <<[kind        |-> "transaction",
                                           destination |-> ESCROW_ADDRESS,
                                           amount      |-> String(a * 1000000)]>>]]
              ELSE r.res = Error(400, <<"ESCROW_ADDRESS not configured on server (.env)">>)
        /\ \A pkh \in Addresses \ {Job(id).clientAddress}, escrowAddress \in Opt(EscrowAddresses) :
              DepositPrepare(jobs, id, pkh, TezField(a), escrowAddress).res
                  = Error(403, <<"Only client can deposit">>)

\* a deposit of 10 tez prepared on a job that is past ACCEPTED: 10,000,000 mutez
C12_Witness ==
    \E id \in DOMAIN jobs :
        /\ Job(id).status = "RELEASED"
        /\ id \in depositPrepared
        /\ ESCROW_ADDRESS = "tz1fakeEscrowAddr"
        /\ DepositPrepare(jobs, id, "tz1Client", TezField(10), ESCROW_ADDRESS).res.body.operationDetails[1].amount
              = String(10000000)

\* C13: deposit/prepare and release/prepare, whether they succeed or fail,
\* change no field of any job and write no file; the same request made again
\* on the store the first call left gets the same response, and leaves the
\* store as it was before the first call.
C13_PrepareChangesNothing ==
    \A id \in RequestIds, pkh \in Opt(Addresses) :
        /\ \A amountTez \in OptNumber(AmountsTezHalfMutez) :
              LET first == DepositPrepare(jobs, id, pkh, amountTez, ESCROW_ADDRESS)
                  again == DepositPrepare(first.jobs, id, pkh, amountTez, ESCROW_ADDRESS)
              IN /\ NoEffect(first)
                 /\ again.res = first.res
                 /\ again.jobs = jobs
        /\ LET first == ReleasePrepare(jobs, id, pkh)
               again == ReleasePrepare(first.jobs, id, pkh)
           IN /\ NoEffect(first)
              /\ again.res = first.res
              /\ again.jobs = jobs

\* C13, on the steps taken: a step that prepares a deposit (the only change
\* of the history of prepared deposits) leaves the store and the file alone.
C13_PrepareStepChangesNothing ==
    [][depositPrepared' # depositPrepared => (jobs' = jobs /\ disk' = disk)]_vars

\* a job last written some time ago, whose deposit has been prepared, and on
\* which both prepare requests of the client succeed
C13_Witness ==
    \E id \in DOMAIN jobs :
        /\ id \in depositPrepared
        /\ Job(id).updatedAt < clock
        /\ DepositPrepare(jobs, id, "tz1Client", <<3>>, ESCROW_ADDRESS).res.code = 200
        /\ ReleasePrepare(jobs, id, "tz1Client").res.code = 200

\* the replies of create, accept, deposit/prepare, deposit/confirm, submit,
\* release/prepare, release/confirm made in this order from the present
\* store, each on the store the one before left: c the client, f the
\* freelancer, h and r the references of the deposit and of the release
RoundTrip(id, c, f, amountMutez, amountTez, h, workUrl, r) ==
    LET s1 == CreateJob(jobs, id, "Logo design", amountMutez, c, Null, clock)
        s2 == AcceptJob(s1.jobs, id, f, clock)
        s3 == DepositPrepare(s2.jobs, id, c, amountTez, ESCROW_ADDRESS)
        s4 == DepositConfirm(s3.jobs, id, c, h, clock)
        s5 == SubmitWork(s4.jobs, id, f, workUrl, clock)
        s6 == ReleasePrepare(s5.jobs, id, c)
        s7 == ReleaseConfirm(s6.jobs, id, c, r, clock)
    IN <<s1, s2, s3, s4, s5, s6, s7>>

C15_DepositConfirmRecords ==
    \A id \in DOMAIN jobs, h \in OpHashes :
        LET r   == DepositConfirm(jobs, id, Job(id).clientAddress, h, clock)
            old == Job(id).escrow.opHashes
            new == r.jobs[id].escrow.opHashes
        IN /\ r.res.code = 200
           /\ r.jobs[id].escrow.deposited = Job(id).amountMutez
           /\ Len(new) = Len(old) + 1
           /\ new[Len(new)] = h
           /\ \A i \in 1..Len(old) : new[i] = old[i]
           /\ r.jobs[id].status = "FUNDED"
           /\ r.res.body.job = r.jobs[id]
           /\ Job(id).status = "ACCEPTED" => new = <<h>>

\* an accepted job just funded by a first deposit/confirm
C15_Witness ==
    \E id \in DOMAIN jobs :
        /\ lastWrite.op = "deposit/confirm"
        /\ Job(id).status = "FUNDED"
        /\ Job(id).freelancerAddress # Null
        /\ Job(id).amountMutez = 10000000
        /\ Job(id).escrow = [deposited |-> 10000000, opHashes |-> <<lastWrite.opHash>>]
        /\ Job(id).submission = << >> /\ Job(id).dispute = << >> /\ Job(id).release = << >>

\* C16: a dispute that carries an identity and a reason succeeds on a job in
\* every status, RELEASED included: the job becomes DISPUTED and its dispute
\* record holds that identity and that reason.
C16_DisputeFromAnyStatus ==
    \A id \in DOMAIN jobs, pkh \in Addresses, reason \in Reasons :
        LET r == DisputeJob(jobs, id, pkh, reason, clock)
        IN /\ r.res.code = 200
           /\ r.save
           /\ r.jobs[id].status = "DISPUTED"
           /\ Len(r.jobs[id].dispute) = 1
           /\ r.jobs[id].dispute[1].by = pkh
           /\ r.jobs[id].dispute[1].reason = reason

\* a released job that has just been disputed
C16_Witness ==
    \E id \in DOMAIN jobs :
        /\ lastWrite.op = "dispute"
        /\ Job(id).status = "DISPUTED"
        /\ Job(id).release # << >>
        /\ Job(id).dispute[1].by = lastWrite.pkh
        /\ Job(id).dispute[1].reason = lastWrite.reason
        /\ Job(id).dispute[1].at >= Job(id).release[1].at

\* C18: no step removes a job or changes its id, amountMutez or
\* clientAddress, and no step changes a freelancerAddress that is set.
C18_IdentityFieldsFrozen ==
    [][\A id \in DOMAIN jobs :
          /\ id \in DOMAIN jobs'
          /\ jobs'[id].id = jobs[id].id
          /\ jobs'[id].id = id
          /\ jobs'[id].amountMutez = jobs[id].amountMutez
          /\ jobs'[id].clientAddress = jobs[id].clientAddress
          /\ jobs[id].freelancerAddress # Null
                => jobs'[id].freelancerAddress = jobs[id].freelancerAddress]_vars

\* a job accepted by one address, on which the other address has since
\* confirmed a deposit and a release and raised a dispute
C18_Witness ==
    \E id \in DOMAIN jobs :
        /\ Job(id).freelancerAddress = "tz1Freelancer"
        /\ Job(id).clientAddress = "tz1Client"
        /\ Job(id).amountMutez = 10000000
        /\ Job(id).escrow.opHashes # << >>
        /\ Job(id).release # << >>
        /\ Job(id).status = "DISPUTED"
        /\ Job(id).dispute[1].by = "tz1Client"

\* C19: once a release is recorded, no step changes release.opHash.
C19_ReleaseSetOnce ==
    [][\A id \in DOMAIN jobs :
          jobs[id].release # << >>
              => /\ jobs'[id].release # << >>
                 /\ jobs'[id].release[1].opHash = jobs[id].release[1].opHash]_vars

\* C20: once a submission is recorded, no step is a submit that succeeds and
\* no step changes submission.workUrl.
C20_SubmissionSetOnce ==
    [][\A id \in DOMAIN jobs :
          jobs[id].submission # << >>
              => /\ jobs'[id].submission # << >>
                 /\ jobs'[id].submission[1].workUrl = jobs[id].submission[1].workUrl
                 /\ ~(lastWrite'.op = "submit" /\ jobs' # jobs)]_vars

\* the accept requests that have been answered 200
Accepted == {q \in DOMAIN accepts : accepts[q].res.code = 200}

\* C17: the handlers of two accept requests for one OPEN job never run at
\* the same time; when both requests that name a freelancer are answered,
\* exactly one got 200, the other the invalid transition error, and the
\* job's freelancerAddress is the one of the request that got 200.
C17_OneAcceptWins ==
    /\ Cardinality({q \in DOMAIN accepts : accepts[q].pc \notin {"pending", "done"}}) <= 1
    /\ Cardinality(Accepted) <= 1
    /\ \A q \in Accepted :
          /\ jobs[accepts[q].id].freelancerAddress = accepts[q].freelancerPkh
          /\ accepts[q].res.body.job.freelancerAddress = accepts[q].freelancerPkh
    /\ (\A q \in DOMAIN accepts : accepts[q].pc = "done" /\ accepts[q].freelancerPkh # Null)
          => /\ Cardinality(Accepted) = 1
             /\ \A q \in DOMAIN accepts \ Accepted :
                   accepts[q].res = Error(400, <<"Cannot accept job in status ", "ACCEPTED">>)

\* both requests answered, for two different freelancers, the second served
\* first: it won, and the first was refused
C17_Witness ==
    /\ DOMAIN accepts = AcceptRequests
    /\ accepts["first"].pc = "done" /\ accepts["second"].pc = "done"
    /\ accepts["first"].freelancerPkh = "tz1Client"
    /\ accepts["second"].freelancerPkh = "tz1Freelancer"
    /\ accepts["second"].res.code = 200
    /\ accepts["first"].res.code = 400
    /\ jobs[accepts["first"].id].freelancerAddress = "tz1Freelancer"
====
